---- MODULE Spec2Model ----
(***************************************************************************)
(* CEI PDF signer: the Flask request handlers of app.py (slots,            *)
(* certificate, sign, save-files) and the desktop start-up of main.py as  *)
(* a state machine.                                                        *)
(*                                                                         *)
(* Text is a sequence of one-character strings; an optional value is a     *)
(* sequence of length 0 (None) or 1 (Some).  The PKCS#11 driver, the PDF   *)
(* library and the file system are the environment: what they answer is    *)
(* drawn with \E in the handler that asks.                                 *)
(***************************************************************************)
EXTENDS Integers, Sequences, FiniteSets, TLC

VARIABLES
    PKCS11_AVAILABLE,   \* app.py:20-26, set once at import
    PYHANKO_AVAILABLE,  \* app.py:29-42, set once at import
    environ,            \* os.environ.get('PKCS11_LIB'): None or Some(text)
    open_sessions,      \* PKCS#11 sessions opened on the token and not closed
    downloads,          \* ~/Downloads: path -> content
    req,                \* the request being answered
    calls,              \* driver / library calls the handler made, in order
    raised,             \* the exception the handler's try block raised, if any
    resp,               \* the response (or the escaped exception)
    threads,            \* concurrent save-files requests, one frame per thread
    port,               \* main.py:118, what find_free_port returned, if it has
    listening,          \* the loopback TCP ports: who listens on each
    server,             \* the thread that runs start_server
    pc,                 \* where main() and then start_app are
    elapsed,            \* time.time() - start_time, in sleeps of 0.1 s
    connected,          \* the ports a connect() of wait_for_server reached
    window              \* what the webview window shows

vars == <<PKCS11_AVAILABLE, PYHANKO_AVAILABLE, environ, open_sessions,
          downloads, req, calls, raised, resp, threads,
          port, listening, server, pc, elapsed, connected, window>>

config == <<PKCS11_AVAILABLE, PYHANKO_AVAILABLE, environ>>

desktop == <<port, listening, server, pc, elapsed, connected, window>>

----------------------------------------------------------------------------
(* Bounds of the model *)

MaxLen == 2        \* longest pkcs11_path text drawn
MaxCodes == 2      \* most CKR_ names in one driver error text
MaxSessions == 2   \* sessions the token grants before it refuses to open more
MaxDownloads == 3  \* files ~/Downloads holds before the disk is full
MaxFiles == 2      \* most files in one save-files request
MaxOverrun == 1    \* sleeps the clock is followed for after the timeout

----------------------------------------------------------------------------
(* Optional values and text *)

None == <<>>
Some(v) == <<v>>
Get(o) == o[1]

Whitespace == {" "}
Chars == {" ", "a"}

Texts(n) == UNION {[1..k -> Chars] : k \in 0..n}

RECURSIVE lstrip(_)
lstrip(s) == IF s # <<>> /\ Head(s) \in Whitespace THEN lstrip(Tail(s)) ELSE s

RECURSIVE rstrip(_)
rstrip(s) ==
    IF s # <<>> /\ s[Len(s)] \in Whitespace
    THEN rstrip(SubSeq(s, 1, Len(s) - 1))
    ELSE s

\* str.strip()
strip(s) == rstrip(lstrip(s))

\* e in a sequence
InSeq(e, s) == \E i \in 1..Len(s) : s[i] = e

Range(s) == {s[i] : i \in 1..Len(s)}

----------------------------------------------------------------------------
(* Process-wide configuration *)

DEFAULT_PKCS11_LIB == <<"/Library/Application Support/com.idemia.idplug/lib/libidplug-pkcs11.2.7.0.dylib">>

\* values PKCS11_LIB holds when it is set: not trimmed by the code
EnvValues == {<<" ", "e">>}

get_pkcs11_lib_path_env_first(custom_path) ==
    IF environ # None
    THEN Get(environ)
    ELSE IF custom_path # None /\ Get(custom_path) # <<>>
              /\ strip(Get(custom_path)) # <<>>
         THEN strip(Get(custom_path))
         ELSE DEFAULT_PKCS11_LIB

\* custom_path: None or Some(text)
get_pkcs11_lib_path(custom_path) ==
    IF custom_path # None /\ Get(custom_path) # <<>>
       /\ strip(Get(custom_path)) # <<>>
    THEN strip(Get(custom_path))
    ELSE IF environ # None THEN Get(environ) ELSE DEFAULT_PKCS11_LIB

\* the pkcs11_path values a request carries
PathInputs == {None} \cup {Some(t) : t \in Texts(MaxLen)}

----------------------------------------------------------------------------
(* Requests and responses *)

NoReq == [handler |-> "none"]
NoResp == [handler |-> "none"]

Idle == resp = NoResp

\* one call to the driver, a library or the operating system
\* ok: it returned (ret) rather than raised
Call(op, arg, ok, ret) == [op |-> op, arg |-> arg, ok |-> ok, ret |-> ret]

\* the calls named op among cs
CallsOf(op, cs) == SelectSeq(cs, LAMBDA c : c.op = op)

\* an exception: its class, the CKR_ names its text contains, the call that raised it
Exc(cls, text, at) == [cls |-> cls, text |-> text, at |-> at]

\* an exception that leaves the handler: Flask answers, not the handler
Escaped(h, type_name) ==
    [handler |-> h, escaped |-> TRUE, status |-> 500, json |-> FALSE,
     type_name |-> Some(type_name)]

SlotIds == {0, 2}

\* getSlotList(tokenPresent=True): the driver's list, in the driver's order
SlotLists == {<<>>, <<0>>, <<2>>, <<0, 2>>, <<2, 0>>}

\* the loopback ports the operating system can hand out
Ports == {49152, 49153}

\* the server thread before it is started, and the window before it is created
NoServer == [state |-> "none"]
NoWindow == [kind |-> "none"]

Init ==
    /\ PKCS11_AVAILABLE \in BOOLEAN
    /\ PYHANKO_AVAILABLE \in BOOLEAN
    /\ environ \in {None} \cup {Some(e) : e \in EnvValues}
    /\ open_sessions = 0
    /\ downloads = <<>>
    /\ req = NoReq
    /\ calls = <<>>
    /\ raised = None
    /\ resp = NoResp
    /\ threads = <<>>
    /\ port = None
    /\ listening = [p \in Ports |-> "none"]
    /\ server = NoServer
    /\ pc = "main"
    /\ elapsed = 0
    /\ connected = {}
    /\ window = NoWindow

----------------------------------------------------------------------------
(* GET /api/slots *)

\* CK_TOKEN_INFO fields are blank-padded by the driver
TokenInfos ==
    {[label |-> <<"a", " ">>, model |-> <<"a">>, manufacturerID |-> <<" ", "a">>]}

SlotsResp(slots, error) ==
    [handler |-> "slots", escaped |-> FALSE, status |-> 200, json |-> TRUE,
     slots |-> slots, error |-> error]

\* the body of the for loop: one entry per slot, a placeholder when
\* getTokenInfo raised (info = None)
slot_info_append_skip(slot_info, slot_id, info) ==
    IF info = None
    THEN slot_info
    ELSE Append(slot_info,
                [id |-> slot_id, label |-> strip(Get(info).label),
                 model |-> strip(Get(info).model),
                 manufacturer |-> strip(Get(info).manufacturerID)])

slot_info_append(slot_info, slot_id, info) ==
    IF info = None
    THEN Append(slot_info,
                [id |-> slot_id, label |-> <<"Slot ", ToString(slot_id)>>,
                 model |-> <<"Unknown">>, manufacturer |-> <<"Unknown">>])
    ELSE Append(slot_info,
                [id |-> slot_id, label |-> strip(Get(info).label),
                 model |-> strip(Get(info).model),
                 manufacturer |-> strip(Get(info).manufacturerID)])

\* the for loop of api_slots over the driver's list
RECURSIVE slot_info_loop(_, _, _)
slot_info_loop(slot_info, slots, infos) ==
    IF slots = <<>>
    THEN slot_info
    ELSE slot_info_loop(slot_info_append(slot_info, Head(slots), infos[Head(slots)]),
                        Tail(slots), infos)

\* the two except clauses of api_slots
slots_except(cls) ==
    SlotsResp(<<>>, Some(IF cls = "PyKCS11Error" THEN "Smart card error" ELSE "Error"))

ApiSlots ==
    /\ Idle
    /\ \E custom_path \in PathInputs :
        LET lib_path == get_pkcs11_lib_path(custom_path)
            Done(cs, exc, r) == /\ calls' = cs
                                /\ raised' = exc
                                /\ resp' = r
        IN
        /\ req' = [handler |-> "slots", pkcs11_path |-> custom_path]
        /\ IF ~PKCS11_AVAILABLE
           THEN Done(<<>>, None, SlotsResp(<<>>, Some("PyKCS11 not installed")))
           ELSE
           \E exists \in BOOLEAN :
           LET c1 == << Call("exists", lib_path, TRUE, exists) >> IN
           IF ~exists
           THEN Done(c1, None, SlotsResp(<<>>, Some("PKCS11 library not found")))
           ELSE
           \* try:
           \E load \in {"ok", "PyKCS11Error", "RuntimeError"} :
           LET c2 == Append(c1, Call("load", lib_path, load = "ok", None)) IN
           IF load # "ok"
           THEN Done(c2, Some(Exc(load, {}, "load")), slots_except(load))
           ELSE
           \E getSlotList \in {"ok", "PyKCS11Error", "RuntimeError"} :
           IF getSlotList # "ok"
           THEN Done(Append(c2, Call("getSlotList", None, FALSE, None)),
                     Some(Exc(getSlotList, {}, "getSlotList")),
                     slots_except(getSlotList))
           ELSE
           \E slots \in SlotLists :
           LET c3 == Append(c2, Call("getSlotList", None, TRUE, slots)) IN
           IF slots = <<>>
           THEN Done(c3, None, SlotsResp(<<>>, Some("No smart card detected")))
           ELSE
           \E infos \in [Range(slots) -> {None} \cup {Some(t) : t \in TokenInfos}] :
           Done(c3 \o [i \in 1..Len(slots) |->
                          Call("getTokenInfo", slots[i], infos[slots[i]] # None,
                               infos[slots[i]])],
                None,
                SlotsResp(slot_info_loop(<<>>, slots, infos), None))
    /\ UNCHANGED <<config, desktop, open_sessions, downloads, threads>>

----------------------------------------------------------------------------
(* Driver errors *)

\* the CKR_ names api_get_certificate looks for, in the order it looks
Codes == {"CKR_PIN_INCORRECT", "CKR_PIN_LOCKED", "CKR_TOKEN_NOT_PRESENT",
          "CKR_SLOT_ID_INVALID", "CKR_USER_NOT_LOGGED_IN"}

\* an error text is modelled by the set of CKR_ names that occur in it
ErrorTexts == {T \in SUBSET Codes : Cardinality(T) <= MaxCodes}

\* what a PyKCS11 call can raise: the driver's error, or anything else
PyErrors(at) ==
    {Exc("PyKCS11Error", T, at) : T \in ErrorTexts}
    \cup {Exc("RuntimeError", T, at) : T \in {{}, {"CKR_PIN_INCORRECT"}}}

\* the ways a call can end: None (it returns) or Some(exception)
Outcomes(errors) == {None} \cup {Some(e) : e \in errors}

\* the token refuses a session once MaxSessions are open
OpenOutcomes(errors) ==
    IF open_sessions >= MaxSessions
    THEN {Some(e) : e \in errors}
    ELSE Outcomes(errors)

\* sessions a handler's calls left open: opened and not closed
Opened(cs, open_op) == Len(SelectSeq(cs, LAMBDA c : c.op = open_op /\ c.ok))
Closed(cs, close_op) == Len(SelectSeq(cs, LAMBDA c : c.op = close_op /\ c.ok))

----------------------------------------------------------------------------
(* POST /api/certificate *)

\* the 'slot' field: absent, an integer, or something int() rejects
SlotInputs == {[kind |-> "missing"], [kind |-> "bad"]}
              \cup {[kind |-> "num", val |-> i] : i \in SlotIds}

\* the 'pin' field after str(): absent, text, or the text 'None' that str()
\* makes of a JSON null
PinInputs == {None, Some(<<" ">>), Some(<<"1", " ">>), Some(<<"None">>)}

CertData ==
    {None} \cup
    {Some([slot |-> s, pin |-> p, pkcs11_path |-> c]) :
        s \in SlotInputs, p \in PinInputs, c \in PathInputs}

\* certificate objects on the token: the label attribute (None when empty)
\* and whether the DER value parses as X.509
TokenCerts ==
    {<<>>,
     << [raw_label |-> Some(<<"a">>), x509 |-> TRUE] >>,
     << [raw_label |-> None, x509 |-> FALSE] >>}

CertResp(status, error, certificates) ==
    [handler |-> "certificate", escaped |-> FALSE, status |-> status,
     json |-> TRUE, error |-> error, type_name |-> None,
     certificates |-> certificates]

\* int(data.get('slot', 2)); called only when the value converts
slot_int(s) == IF s.kind = "missing" THEN 2 ELSE s.val

\* str(data.get('pin', '')).strip()
pin_text(p) == strip(IF p = None THEN <<>> ELSE Get(p))

cert_info_entry(c) ==
    [label |-> IF c.raw_label = None THEN <<"Unknown">> ELSE Get(c.raw_label),
     parsed |-> c.x509]

cert_except_token_first(e) ==
    IF e.cls = "PyKCS11Error"
    THEN IF "CKR_PIN_INCORRECT" \in e.text
         THEN CertResp(401, Some("Incorrect PIN"), None)
         ELSE IF "CKR_TOKEN_NOT_PRESENT" \in e.text
         THEN CertResp(500, Some("Smart card not detected"), None)
         ELSE IF "CKR_PIN_LOCKED" \in e.text
         THEN CertResp(401, Some("PIN is locked"), None)
         ELSE IF "CKR_SLOT_ID_INVALID" \in e.text
         THEN CertResp(500, Some("Invalid slot"), None)
         ELSE IF "CKR_USER_NOT_LOGGED_IN" \in e.text
         THEN CertResp(500, Some("Session expired"), None)
         ELSE CertResp(500, Some("Smart card error"), None)
    ELSE CertResp(500, Some("Error"), None)

\* the except clauses of api_get_certificate
cert_except(e) ==
    IF e.cls = "PyKCS11Error"
    THEN IF "CKR_PIN_INCORRECT" \in e.text
         THEN CertResp(401, Some("Incorrect PIN"), None)
         ELSE IF "CKR_PIN_LOCKED" \in e.text
         THEN CertResp(401, Some("PIN is locked"), None)
         ELSE IF "CKR_TOKEN_NOT_PRESENT" \in e.text
         THEN CertResp(500, Some("Smart card not detected"), None)
         ELSE IF "CKR_SLOT_ID_INVALID" \in e.text
         THEN CertResp(500, Some("Invalid slot"), None)
         ELSE IF "CKR_USER_NOT_LOGGED_IN" \in e.text
         THEN CertResp(500, Some("Session expired"), None)
         ELSE CertResp(500, Some("Smart card error"), None)
    ELSE CertResp(500, Some("Error"), None)

ApiCertificate ==
    /\ Idle
    /\ \E data \in CertData :
        LET Done(cs, exc, r) ==
                /\ calls' = cs
                /\ raised' = exc
                /\ resp' = r
                /\ open_sessions' = open_sessions + Opened(cs, "openSession")
                                                  - Closed(cs, "closeSession")
            \* a call that raised: the except clauses answer
            Raise(cs, op, arg, e) ==
                Done(Append(cs, Call(op, arg, FALSE, None)), Some(e), cert_except(e))
        IN
        /\ req' = [handler |-> "certificate", data |-> data]
        /\ IF ~PKCS11_AVAILABLE
           THEN Done(<<>>, None, CertResp(500, Some("PyKCS11 not installed"), None))
           ELSE IF data = None
           THEN Done(<<>>, None, CertResp(400, Some("Invalid request data"), None))
           ELSE IF Get(data).slot.kind = "bad"
           THEN \* int() raises before the try block
                Done(<<>>, Some(Exc("ValueError", {}, "int")),
                     Escaped("certificate", "ValueError"))
           ELSE
           LET slot_id == slot_int(Get(data).slot)
               pin == pin_text(Get(data).pin)
               lib_path == get_pkcs11_lib_path(Get(data).pkcs11_path)
           IN
           IF pin = <<>>
           THEN Done(<<>>, None, CertResp(400, Some("PIN required"), None))
           ELSE
           \* try:
           \E load \in Outcomes(PyErrors("load")) :
           IF load # None THEN Raise(<<>>, "load", lib_path, Get(load)) ELSE
           LET c1 == << Call("load", lib_path, TRUE, None) >> IN
           \E getSlotList \in Outcomes(PyErrors("getSlotList")) :
           IF getSlotList # None
           THEN Raise(c1, "getSlotList", None, Get(getSlotList)) ELSE
           \E available_slots \in SlotLists :
           LET c2 == Append(c1, Call("getSlotList", None, TRUE, available_slots)) IN
           IF ~InSeq(slot_id, available_slots)
           THEN Done(c2, None, CertResp(400, Some("Slot not available"), None))
           ELSE
           \E openSession \in OpenOutcomes(PyErrors("openSession")) :
           IF openSession # None
           THEN Raise(c2, "openSession", slot_id, Get(openSession)) ELSE
           LET c3 == Append(c2, Call("openSession", slot_id, TRUE, None)) IN
           \E login \in Outcomes(PyErrors("login")) :
           IF login # None THEN Raise(c3, "login", pin, Get(login)) ELSE
           LET c4 == Append(c3, Call("login", pin, TRUE, None)) IN
           \E findObjects \in Outcomes(PyErrors("findObjects")) :
           IF findObjects # None
           THEN Raise(c4, "findObjects", None, Get(findObjects)) ELSE
           \E certs \in TokenCerts :
           LET c5 == Append(c4, Call("findObjects", None, TRUE, certs))
               \* the first k certificates are read
               Read(k) == [i \in 1..k |-> Call("getAttributeValue", i, TRUE, None)]
           IN
           \/ \E k \in 1..Len(certs), e \in PyErrors("getAttributeValue") :
                 Raise(c5 \o Read(k - 1), "getAttributeValue", k, e)
           \/ LET c6 == c5 \o Read(Len(certs))
                  cert_info == [i \in 1..Len(certs) |-> cert_info_entry(certs[i])]
              IN
              \E logout \in Outcomes(PyErrors("logout")) :
              IF logout # None THEN Raise(c6, "logout", None, Get(logout)) ELSE
              LET c7 == Append(c6, Call("logout", None, TRUE, None)) IN
              \E closeSession \in Outcomes(PyErrors("closeSession")) :
              IF closeSession # None
              THEN Raise(c7, "closeSession", None, Get(closeSession))
              ELSE Done(Append(c7, Call("closeSession", None, TRUE, None)), None,
                        CertResp(200, None, Some(cert_info)))
    /\ UNCHANGED <<config, desktop, downloads, threads>>

----------------------------------------------------------------------------
(* POST /api/sign *)

\* a numeric form or box field: absent, a number, or text the conversion rejects
Missing == [kind |-> "missing"]
Bad == [kind |-> "bad"]
Num(v) == [kind |-> "num", val |-> v]

\* the geometry fields of the form, or of one signature box
Geoms ==
    [page : {Missing, Bad, Num(1), Num(2)}, x : {Missing, Bad, Num(10)},
     y : {Missing, Num(20)}, width : {Missing, Num(30)},
     height : {Missing, Num(5)}]

NoGeom == [page |-> Missing, x |-> Missing, y |-> Missing, width |-> Missing,
           height |-> Missing]

\* a geometry no other field of the request repeats
OtherGeom == [page |-> Num(2), x |-> Num(1), y |-> Num(2), width |-> Num(3),
              height |-> Num(4)]

ScalarBox == [kind |-> "scalar"]
ObjectBox(g) == [kind |-> "object", geom |-> g]

\* signature_boxes: absent, text json.loads rejects, or a JSON list
NoBoxes == [kind |-> "missing"]
InvalidBoxes == [kind |-> "invalid"]
BoxList(bs) == [kind |-> "list", boxes |-> bs]

SignForm(has_pdf, slot, pin, path, boxes, visible, geom) ==
    [has_pdf |-> has_pdf, slot |-> slot, pin |-> pin, pkcs11_path |-> path,
     signature_boxes |-> boxes, visible |-> visible, geom |-> geom]

\* the requests drawn: who signs and with which driver, with the default
\* geometry; the geometry from the form fields; the geometry from boxes
SignForms ==
    {SignForm(f, s, p, c, NoBoxes, None, NoGeom) :
        f \in BOOLEAN, s \in SlotInputs, p \in PinInputs, c \in PathInputs}
    \cup {SignForm(TRUE, Missing, Some(<<"1", " ">>), None, b, v, g) :
            b \in {NoBoxes}, v \in {None, Some("true"), Some("false")}, g \in Geoms}
    \cup {SignForm(TRUE, Missing, Some(<<"1", " ">>), None, b, v, g) :
            b \in {InvalidBoxes, BoxList(<<>>)}, v \in {None, Some("false")},
            g \in Geoms}
    \cup {SignForm(TRUE, Missing, Some(<<"1", " ">>), None,
                    BoxList(<<b>> \o o.rest), o.visible, o.geom) :
            b \in {ScalarBox} \cup {ObjectBox(bg) : bg \in Geoms},
            o \in {[rest |-> <<>>, visible |-> None, geom |-> NoGeom],
                   [rest |-> <<ObjectBox(OtherGeom)>>, visible |-> Some("false"),
                    geom |-> OtherGeom]}}

\* the uploaded PDF as the PDF library reads it: /Kids of the root /Pages, each
\* with its /MediaBox (None when the page has none)
MediaBoxes == {None, Some(<<0, 10, 100, 210>>)}

Pdfs == {<<m>> : m \in MediaBoxes} \cup {<<None, Some(<<0, 10, 100, 210>>)>>}

SignResp(status, error, type_name, success) ==
    [handler |-> "sign", escaped |-> FALSE, status |-> status, json |-> TRUE,
     error |-> error, type_name |-> type_name, success |-> success]

\* int(v) / float(v) with a default for an absent field; only for v that converts
num_or(v, default) == IF v.kind = "missing" THEN default ELSE v.val

Converts(g) == \A f \in {"page", "x", "y", "width", "height"} : g[f].kind # "bad"

\* json.loads(signature_boxes_json), [] when it raises
signature_boxes_of(form) ==
    IF form.signature_boxes.kind = "list" THEN form.signature_boxes.boxes ELSE <<>>

sign_geometry_visible_field(form) ==
    LET signature_boxes == signature_boxes_of(form)
        from_box == signature_boxes # <<>>
        box == signature_boxes[1]
        g == IF from_box THEN box.geom ELSE form.geom
    IN  IF from_box /\ box.kind # "object" THEN None
        ELSE IF ~Converts(g) THEN None
        ELSE Some([visible |-> (IF form.visible = None THEN "true"
                                ELSE Get(form.visible)) = "true",
                   sig_page |-> num_or(g.page, 1) - 1,
                   sig_x |-> num_or(g.x, 50),
                   sig_y |-> num_or(g.y, 50),
                   sig_width |-> num_or(g.width, 200),
                   sig_height |-> num_or(g.height, 70)])

\* lines 262-276: None when a conversion (or box.get) raises, else the
\* geometry the handler goes on with
sign_geometry(form) ==
    LET signature_boxes == signature_boxes_of(form)
        from_box == signature_boxes # <<>>
        box == signature_boxes[1]
        g == IF from_box THEN box.geom ELSE form.geom
    IN  IF from_box /\ box.kind # "object" THEN None
        ELSE IF ~Converts(g) THEN None
        ELSE Some([visible |-> IF from_box THEN TRUE
                               ELSE (IF form.visible = None THEN "true"
                                     ELSE Get(form.visible)) = "true",
                   sig_page |-> num_or(g.page, 1) - 1,
                   sig_x |-> num_or(g.x, 50),
                   sig_y |-> num_or(g.y, 50),
                   sig_width |-> num_or(g.width, 200),
                   sig_height |-> num_or(g.height, 70)])

\* page_obj.get('/MediaBox', [0, 0, 612, 792])
media_box_of(page_obj) == IF page_obj = None THEN <<0, 0, 612, 792>> ELSE Get(page_obj)

sig_field_box_no_height(sig_x, sig_y, sig_width, sig_height, page_height) ==
    LET pdf_y == page_height - sig_y
    IN  <<sig_x, pdf_y, sig_x + sig_width, pdf_y + sig_height>>

\* lines 344-352: the field's box from the caller's top-left coordinates
sig_field_box(sig_x, sig_y, sig_width, sig_height, page_height) ==
    LET pdf_y == page_height - sig_y - sig_height
    IN  <<sig_x, pdf_y, sig_x + sig_width, pdf_y + sig_height>>

\* what a python-pkcs11 call can raise; the text holds 'PIN' or not
Pkcs11Errors(at) ==
    {Exc("PKCS11Error", T, at) : T \in {{}, {"PIN"}}}
    \cup {Exc("RuntimeError", {}, at)}

\* what the PDF library or the file system can raise
OtherErrors(at) == {Exc("RuntimeError", {}, at)}

\* the except clauses of api_sign_pdf
sign_except(e) ==
    IF e.cls = "PKCS11Error"
    THEN IF "PIN" \in e.text
         THEN SignResp(401, Some("Incorrect PIN or PIN locked"), None, FALSE)
         ELSE SignResp(500, Some("Smart card error"), Some(e.cls), FALSE)
    ELSE SignResp(500, Some("Error"), Some(e.cls), FALSE)

sign_finally_never(cs, session) == {cs}

\* lines 435-441: the calls once the finally clause has run; session tells
\* whether the local 'session' still holds the open session.  What close()
\* raises there is swallowed.
sign_finally(cs, session) ==
    IF session
    THEN {Append(cs, Call("close", "finally", ok, None)) : ok \in BOOLEAN}
    ELSE {cs}

\* Python's seq[i] for a 0-based i, negative i counting from the end:
\* None when it raises IndexError, else the 1-based position
py_index(n, i) ==
    IF 0 <= i /\ i < n THEN Some(i + 1)
    ELSE IF -n <= i /\ i < 0 THEN Some(n + i + 1)
    ELSE None

ApiSign ==
    /\ Idle
    /\ \E form \in SignForms :
        LET Done(cs, exc, r) ==
                /\ calls' = cs
                /\ raised' = exc
                /\ resp' = r
                /\ open_sessions' = open_sessions + Opened(cs, "open")
                                                  - Closed(cs, "close")
            \* leaving the try block: the finally clause runs
            Exit(cs, exc, r, session) ==
                \E after \in sign_finally(cs, session) : Done(after, exc, r)
            \* a call raised with session still None
            Raise(cs, op, arg, e) ==
                Exit(Append(cs, Call(op, arg, FALSE, None)), Some(e), sign_except(e),
                     FALSE)
            \* a call raised with the session open
            RaiseOpen(cs, op, arg, e) ==
                Exit(Append(cs, Call(op, arg, FALSE, None)), Some(e), sign_except(e),
                     TRUE)
            geometry == sign_geometry(form)
        IN
        /\ req' = [handler |-> "sign", form |-> form]
        /\ IF ~PYHANKO_AVAILABLE
           THEN Done(<<>>, None, SignResp(500, Some("pyHanko not installed"), None, FALSE))
           ELSE IF ~form.has_pdf
           THEN Done(<<>>, None, SignResp(400, Some("No PDF file provided"), None, FALSE))
           ELSE IF form.slot.kind = "bad"
           THEN Done(<<>>, Some(Exc("ValueError", {}, "int")),
                     Escaped("sign", "ValueError"))
           ELSE IF geometry = None
           THEN Done(<<>>, Some(Exc("ValueError", {}, "geometry")),
                     Escaped("sign", "ValueError"))
           ELSE
           LET slot_id == slot_int(form.slot)
               pin == pin_text(form.pin)
               g == Get(geometry)
               lib_path == get_pkcs11_lib_path(form.pkcs11_path)
           IN
           IF pin = <<>>
           THEN Done(<<>>, None, SignResp(400, Some("PIN required"), None, FALSE))
           ELSE
           \* try:
           \E lib \in Outcomes(Pkcs11Errors("lib")) :
           IF lib # None THEN Raise(<<>>, "lib", lib_path, Get(lib)) ELSE
           LET c1 == << Call("lib", lib_path, TRUE, None) >> IN
           \E get_slots \in Outcomes(Pkcs11Errors("get_slots")) :
           IF get_slots # None THEN Raise(c1, "get_slots", None, Get(get_slots)) ELSE
           \E slots \in SlotLists :
           LET c2 == Append(c1, Call("get_slots", None, TRUE, slots)) IN
           IF ~InSeq(slot_id, slots)
           THEN Exit(c2, None, SignResp(400, Some("Slot not found"), None, FALSE), FALSE)
           ELSE
           \E open \in OpenOutcomes(Pkcs11Errors("open")) :
           IF open # None THEN Raise(c2, "open", pin, Get(open)) ELSE
           LET c3 == Append(c2, Call("open", pin, TRUE, None)) IN
           \E signer \in Outcomes(Pkcs11Errors("PKCS11Signer")) :
           IF signer # None THEN RaiseOpen(c3, "PKCS11Signer", None, Get(signer)) ELSE
           LET c4 == Append(c3, Call("PKCS11Signer", None, TRUE, None)) IN
           \E reader \in Outcomes(OtherErrors("PdfFileReader")) :
           IF reader # None THEN RaiseOpen(c4, "PdfFileReader", None, Get(reader)) ELSE
           \E pdf \in Pdfs :
           LET c5 == Append(c4, Call("PdfFileReader", None, TRUE, pdf))
               at == py_index(Len(pdf), g.sig_page)
               page_obj == pdf[Get(at)]
               media_box == media_box_of(page_obj)
               page_height == media_box[4] - media_box[2]
               spec == [on_page |-> g.sig_page,
                        box |-> sig_field_box(g.sig_x, g.sig_y, g.sig_width,
                                              g.sig_height, page_height)]
               \* after the field, if any, is in place: sign, close, write
               Sign(c) ==
                   \E sign_pdf \in Outcomes(Pkcs11Errors("sign_pdf")) :
                   IF sign_pdf # None
                   THEN RaiseOpen(c, "sign_pdf", None, Get(sign_pdf)) ELSE
                   LET c7 == Append(c, Call("sign_pdf", None, TRUE, None)) IN
                   \E close \in Outcomes(Pkcs11Errors("close")) :
                   IF close # None
                   THEN RaiseOpen(c7, "close", "explicit", Get(close)) ELSE
                   \* session = None: the finally block closes nothing
                   LET c8 == Append(c7, Call("close", "explicit", TRUE, None)) IN
                   \E write \in Outcomes(OtherErrors("write")) :
                   IF write # None
                   THEN Raise(c8, "write", None, Get(write))
                   ELSE Exit(Append(c8, Call("write", None, TRUE, None)), None,
                             SignResp(200, None, None, TRUE), FALSE)
           IN
           IF ~g.visible THEN Sign(c5)
           ELSE IF at = None
           THEN RaiseOpen(c5, "Kids", g.sig_page, Exc("IndexError", {}, "Kids"))
           ELSE
           LET c6 == Append(c5, Call("Kids", g.sig_page, TRUE, page_obj)) IN
           \E append \in Outcomes(OtherErrors("append_signature_field")) :
           IF append # None
           THEN RaiseOpen(c6, "append_signature_field", spec, Get(append))
           ELSE Sign(Append(c6, Call("append_signature_field", spec, TRUE, None)))
    /\ UNCHANGED <<config, desktop, downloads, threads>>

----------------------------------------------------------------------------
(* POST /api/save-files *)

\* A path under ~/Downloads is the sequence of the pieces of its file name,
\* the extension last: a.pdf is <<"a", ".pdf">>, a_1.pdf is <<"a", "_1", ".pdf">>
FileNames == {<<"a", ".pdf">>, <<"a", "_1", ".pdf">>}

ZipName == <<"signed_documents", ".zip">>

\* decoded payloads; a 'data' of None is text base64.b64decode rejects
Bytes == {1, 2}

FileInfo(name, data) == [name |-> name, data |-> data]

FileInfos == {FileInfo(n, d) : n \in FileNames, d \in {None} \cup {Some(b) : b \in Bytes}}

\* the files of the longer requests
ZipInfos == {FileInfo(<<"a", ".pdf">>, Some(1)), FileInfo(<<"a", "_1", ".pdf">>, None)}

\* the 'files' lists drawn
FileLists ==
    {<<>>} \cup {<<f>> : f \in FileInfos}
    \cup UNION {[1..n -> ZipInfos] : n \in 2..MaxFiles}

SaveData == {None} \cup {Some([files |-> fs]) : fs \in FileLists}

File(bytes) == [kind |-> "file", bytes |-> bytes]
Zip(entries) == [kind |-> "zip", entries |-> entries]

exists(fs, path) == path \in DOMAIN fs

\* os.path.splitext
splitext(path) ==
    [base |-> SubSeq(path, 1, Len(path) - 1), ext |-> path[Len(path)]]

\* f"{base}_{counter}{ext}"
numbered(base, counter, ext) == base \o <<"_" \o ToString(counter), ext>>

free_path_none(fs, file_path, base, ext, counter) == file_path

\* the while loop of lines 468-470 and 486-488
RECURSIVE free_path(_, _, _, _, _)
free_path(fs, file_path, base, ext, counter) ==
    IF exists(fs, file_path)
    THEN free_path(fs, numbered(base, counter, ext), base, ext, counter + 1)
    ELSE file_path

\* lines 464-470: the path a file named as given is written to
dedup(fs, path) ==
    free_path(fs, path, splitext(path).base, splitext(path).ext, 1)

\* open(path, 'wb') and ZipFile(path, 'w') fail when the disk is full
CreateOutcomes(fs, path) ==
    IF ~exists(fs, path) /\ Cardinality(DOMAIN fs) >= MaxDownloads
    THEN {FALSE}
    ELSE BOOLEAN

\* the file written, whatever was there
write(fs, path, content) ==
    [p \in DOMAIN fs \cup {path} |-> IF p = path THEN content ELSE fs[p]]

SaveResp(status, error, saved_files) ==
    [handler |-> "save-files", escaped |-> FALSE, status |-> status,
     json |-> TRUE, error |-> error, type_name |-> None,
     saved_files |-> saved_files]

\* the entries zf.writestr adds before a payload fails to decode
RECURSIVE zip_entries(_)
zip_entries(files) ==
    IF files = <<>> \/ Head(files).data = None
    THEN <<>>
    ELSE <<[name |-> Head(files).name, bytes |-> Get(Head(files).data)]>>
         \o zip_entries(Tail(files))

\* line 461: len(files_data) == 1
single_file_branch(files_data) == Len(files_data) = 1

ApiSaveFiles ==
    /\ Idle
    /\ \E data \in SaveData :
        LET Done(cs, exc, r, fs) ==
                /\ calls' = cs
                /\ raised' = exc
                /\ resp' = r
                /\ downloads' = fs
            Fail(cs, op, arg, cls, fs) ==
                Done(Append(cs, Call(op, arg, FALSE, None)), Some(Exc(cls, {}, op)),
                     SaveResp(500, Some("Error"), None), fs)
            \* subprocess.run(['open', '-R', path]) raises where there is no 'open'
            Reveal(cs, path, fs) ==
                \E reveal \in BOOLEAN :
                    IF ~reveal
                    THEN Fail(cs, "reveal", path, "FileNotFoundError", fs)
                    ELSE Done(Append(cs, Call("reveal", path, TRUE, None)), None,
                              SaveResp(200, None, Some(<<path>>)), fs)
        IN
        /\ req' = [handler |-> "save-files", data |-> data]
        /\ IF data = None
           THEN Done(<<>>, None, SaveResp(400, Some("No files provided"), None), downloads)
           ELSE
           LET files_data == Get(data).files IN
           IF single_file_branch(files_data)
           THEN LET file_info == files_data[1]
                    file_path == dedup(downloads, file_info.name)
                IN
                IF file_info.data = None
                THEN Fail(<<>>, "b64decode", None, "Error", downloads)
                ELSE
                \E created \in CreateOutcomes(downloads, file_path) :
                IF ~created
                THEN Fail(<<>>, "open", file_path, "OSError", downloads)
                ELSE Reveal(<< Call("open", file_path, TRUE, None) >>, file_path,
                            write(downloads, file_path, File(Get(file_info.data))))
           ELSE LET zip_path == dedup(downloads, ZipName)
                    entries == zip_entries(files_data)
                    zipped == write(downloads, zip_path, Zip(entries))
                    c1 == << Call("ZipFile", zip_path, TRUE, None) >>
                IN
                \E created \in CreateOutcomes(downloads, zip_path) :
                IF ~created
                THEN Fail(<<>>, "ZipFile", zip_path, "OSError", downloads)
                ELSE IF Len(entries) < Len(files_data)
                THEN \* the archive is closed with the entries written so far
                     Fail(c1, "b64decode", None, "Error", zipped)
                ELSE Reveal(c1, zip_path, zipped)
    /\ UNCHANGED <<config, desktop, open_sessions, threads>>

----------------------------------------------------------------------------
(* Concurrent POST /api/save-files: main.py starts Flask with threaded=True, *)
(* so each request runs api_save_files on its own thread.  A thread's frame  *)
(* holds the handler's locals; a step is one file-system call.               *)

Threads == {1, 2}

\* lines 463-467 and 482-485: the request is read, the first candidate is set
SaveStart(t) ==
    /\ t \notin DOMAIN threads
    /\ \E target \in {[path |-> n, content |-> File(b)] : n \in FileNames, b \in Bytes}
                     \cup {[path |-> ZipName,
                            content |-> Zip(<<[name |-> <<"a", ".pdf">>, bytes |-> 1],
                                              [name |-> <<"a", ".pdf">>, bytes |-> 2]>>)]} :
        threads' = [u \in DOMAIN threads \cup {t} |->
                       IF u = t
                       THEN [pc |-> "while", name |-> target.path,
                             content |-> target.content,
                             file_path |-> target.path,
                             base |-> splitext(target.path).base,
                             ext |-> splitext(target.path).ext,
                             counter |-> 1]
                       ELSE threads[u]]
    /\ UNCHANGED <<config, desktop, open_sessions, downloads, req, calls, raised, resp>>

\* lines 468-470: one evaluation of os.path.exists and, if it holds, the body
SaveExists(t) ==
    /\ t \in DOMAIN threads
    /\ threads[t].pc = "while"
    /\ LET f == threads[t] IN
       threads' = [threads EXCEPT ![t] =
           IF exists(downloads, f.file_path)
           THEN [f EXCEPT !.file_path = numbered(f.base, f.counter, f.ext),
                          !.counter = f.counter + 1]
           ELSE [f EXCEPT !.pc = "open"]]
    /\ UNCHANGED <<config, desktop, open_sessions, downloads, req, calls, raised, resp>>

\* lines 473-475: open(file_path, 'wb') truncates or creates, then the write
SaveOpen(t) ==
    /\ t \in DOMAIN threads
    /\ threads[t].pc = "open"
    /\ LET f == threads[t] IN
       \E created \in CreateOutcomes(downloads, f.file_path) :
          IF created
          THEN /\ downloads' = write(downloads, f.file_path, f.content)
               /\ threads' = [threads EXCEPT ![t] = [f EXCEPT !.pc = "saved"]]
          ELSE /\ downloads' = downloads
               /\ threads' = [threads EXCEPT ![t] = [f EXCEPT !.pc = "failed"]]
    /\ UNCHANGED <<config, desktop, open_sessions, req, calls, raised, resp>>

\* every request has been answered: the threads end
SaveJoin ==
    /\ DOMAIN threads = Threads
    /\ \A t \in Threads : threads[t].pc \in {"saved", "failed"}
    /\ threads' = <<>>
    /\ UNCHANGED <<config, desktop, open_sessions, downloads, req, calls, raised, resp>>

ConcurrentNext ==
    \/ \E t \in Threads : SaveStart(t)
    \/ \E t \in Threads : SaveExists(t)
    \/ \E t \in Threads : SaveOpen(t)
    \/ SaveJoin

SpecConcurrent == Init /\ [][ConcurrentNext]_vars

----------------------------------------------------------------------------
(* Desktop start-up: main.py.  main() finds a port and creates the window;    *)
(* webview.start runs start_app on a thread of its own, which starts the      *)
(* server thread and polls the port.  A step is one system or library call.   *)

\* wait_for_server(port, timeout=30), in seconds
timeout == 30

\* time.sleep(0.1): the sleeps that make a second
SleepsPerSecond == 10

TimeoutSleeps == timeout * SleepsPerSecond

\* the window's content
LoadingPage == [kind |-> "loading"]
FailedPage == [kind |-> "failed"]
UrlPage(p) == [kind |-> "url", port |-> p]

\* the clock after one more sleep; it is not followed past the overrun
later(t) == IF t < TimeoutSleeps + MaxOverrun THEN t + 1 ELSE t

\* find_free_port: the system picks a port nobody listens on, the socket is
\* closed again before the function returns
FindFreePort ==
    /\ pc = "main"
    /\ \E p \in Ports :
          /\ listening[p] = "none"
          /\ port' = Some(p)
    /\ pc' = "create_window"
    /\ UNCHANGED <<config, open_sessions, downloads, req, calls, raised, resp,
                   threads, listening, server, elapsed, connected, window>>

\* webview.create_window(html=LOADING_HTML); webview.start then runs start_app
CreateWindow ==
    /\ pc = "create_window"
    /\ window' = LoadingPage
    /\ pc' = "start_app"
    /\ UNCHANGED <<config, open_sessions, downloads, req, calls, raised, resp,
                   threads, port, listening, server, elapsed, connected>>

\* start_app: server_thread.start(), then wait_for_server takes start_time
StartApp ==
    /\ pc = "start_app"
    /\ server' = [state |-> "starting", port |-> Get(port)]
    /\ elapsed' = 0
    /\ pc' = "while"
    /\ UNCHANGED <<config, open_sessions, downloads, req, calls, raised, resp,
                   threads, port, listening, connected, window>>

\* start_server: app.run binds the port it was given and listens, or fails
\* because the port has been taken meanwhile
start_server ==
    /\ server.state = "starting"
    /\ IF listening[server.port] = "none"
       THEN /\ listening' = [listening EXCEPT ![server.port] = "server"]
            /\ server' = [server EXCEPT !.state = "listening"]
       ELSE /\ listening' = listening
            /\ server' = [server EXCEPT !.state = "failed"]
    /\ UNCHANGED <<config, open_sessions, downloads, req, calls, raised, resp,
                   threads, port, pc, elapsed, connected, window>>

\* another process binds a free port; one taken before find_free_port ran is
\* simply not returned by it
ForeignBind ==
    /\ port # None
    /\ \E p \in Ports :
          /\ listening[p] = "none"
          /\ listening' = [listening EXCEPT ![p] = "foreign"]
    /\ UNCHANGED <<config, open_sessions, downloads, req, calls, raised, resp,
                   threads, port, server, pc, elapsed, connected, window>>

\* time passes while wait_for_server runs
Tick ==
    /\ pc \in {"while", "connect"}
    /\ elapsed < TimeoutSleeps + MaxOverrun
    /\ elapsed' = elapsed + 1
    /\ UNCHANGED <<config, open_sessions, downloads, req, calls, raised, resp,
                   threads, port, listening, server, pc, connected, window>>

\* while time.time() - start_time < timeout, else return False
WhileTest ==
    /\ pc = "while"
    /\ pc' = IF elapsed < TimeoutSleeps THEN "connect" ELSE "return_false"
    /\ UNCHANGED <<config, open_sessions, downloads, req, calls, raised, resp,
                   threads, port, listening, server, elapsed, connected, window>>

\* s.connect(('127.0.0.1', port)): it succeeds when somebody listens and is
\* refused when nobody does; socket() or connect() can also raise another
\* OSError, which 'except ConnectionRefusedError' does not catch
Connect ==
    /\ pc = "connect"
    /\ \/ /\ listening[Get(port)] # "none"
          /\ connected' = connected \cup {Get(port)}
          /\ pc' = "return_true"
       \/ /\ listening[Get(port)] = "none"
          /\ connected' = connected
          /\ pc' = "sleep"
       \/ /\ connected' = connected
          /\ pc' = "raised"
    /\ UNCHANGED <<config, open_sessions, downloads, req, calls, raised, resp,
                   threads, port, listening, server, elapsed, window>>

\* time.sleep(0.1)
Sleep ==
    /\ pc = "sleep"
    /\ elapsed' = later(elapsed)
    /\ pc' = "while"
    /\ UNCHANGED <<config, open_sessions, downloads, req, calls, raised, resp,
                   threads, port, listening, server, connected, window>>

\* window.load_url(f'http://127.0.0.1:{port}')
LoadUrl ==
    /\ pc = "return_true"
    /\ window' = UrlPage(Get(port))
    /\ pc' = "done"
    /\ UNCHANGED <<config, open_sessions, downloads, req, calls, raised, resp,
                   threads, port, listening, server, elapsed, connected>>

\* window.load_html(... Server failed to start ...)
LoadHtml ==
    /\ pc = "return_false"
    /\ window' = FailedPage
    /\ pc' = "done"
    /\ UNCHANGED <<config, open_sessions, downloads, req, calls, raised, resp,
                   threads, port, listening, server, elapsed, connected>>

DesktopNext ==
    \/ FindFreePort \/ CreateWindow \/ StartApp \/ start_server \/ ForeignBind
    \/ Tick \/ WhileTest \/ Connect \/ Sleep \/ LoadUrl \/ LoadHtml

SpecDesktop == Init /\ [][DesktopNext]_vars

----------------------------------------------------------------------------
(* The response is sent and the handler's frame is gone *)

Respond ==
    /\ ~Idle
    /\ req' = NoReq
    /\ calls' = <<>>
    /\ raised' = None
    /\ resp' = NoResp
    /\ UNCHANGED <<config, desktop, open_sessions, downloads, threads>>

----------------------------------------------------------------------------
(* Specifications *)

\* every handler, one request at a time
Next ==
    \/ ApiSlots \/ ApiCertificate \/ ApiSign \/ ApiSaveFiles \/ Respond
    \/ DesktopNext

Spec == Init /\ [][Next]_vars

\* The handlers that talk to the card read and write the configuration and
\* open_sessions only; save-files reads and writes downloads only.  Each
\* claim is checked under the handlers it is about.

CardNext == ApiSlots \/ ApiCertificate \/ ApiSign \/ Respond

SpecCard == Init /\ [][CardNext]_vars

SlotsNext == ApiSlots \/ Respond

SpecSlots == Init /\ [][SlotsNext]_vars

CertificateNext == ApiCertificate \/ Respond

SpecCertificate == Init /\ [][CertificateNext]_vars

SignNext == ApiSign \/ Respond

SpecSign == Init /\ [][SignNext]_vars

SaveNext == ApiSaveFiles \/ Respond

SpecSave == Init /\ [][SaveNext]_vars

----------------------------------------------------------------------------
(* Properties *)

\* C1: in POST /api/certificate every session the handler opens has its
\* closeSession called before the handler returns, on the success path and on
\* every failure after the open (login, findObjects, getAttributeValue, logout).
CertificateSessionClosed ==
    resp.handler = "certificate" =>
        (Opened(calls, "openSession") = 1 => CallsOf("closeSession", calls) # <<>>)

----------------------------------------------------------------------------

\* the close() calls api_sign_pdf made
SignCloses == CallsOf("close", calls)

\* C2: in POST /api/sign a session opened by token.open has a close attempted
\* before the response, on the success path and on every error path after the
\* open; no close is made without an open; and when the explicit close after
\* signing succeeds the finally clause does not close again.
SignSessionClosed ==
    resp.handler = "sign" =>
        /\ Opened(calls, "open") = 1 => Len(SignCloses) >= 1
        /\ Opened(calls, "open") = 0 => SignCloses = <<>>
        /\ \A i \in 1..Len(calls) :
              calls[i].op = "close" =>
                 \E j \in 1..(i - 1) : calls[j].op = "open" /\ calls[j].ok
        /\ (\E i \in 1..Len(SignCloses) :
               SignCloses[i].arg = "explicit" /\ SignCloses[i].ok)
           => Len(SignCloses) = 1

\* C2 witness: signing raised with the session open and the finally clause closed it
SignSessionClosedWitness ==
    /\ resp.handler = "sign"
    /\ raised # None
    /\ Get(raised).at = "sign_pdf"
    /\ Len(SignCloses) = 1
    /\ SignCloses[1].arg = "finally"
    /\ SignCloses[1].ok

----------------------------------------------------------------------------

\* the CKR_ names in the order the claim gives, with the status of each
ClaimedOrder ==
    << [code |-> "CKR_PIN_INCORRECT", status |-> 401, error |-> "Incorrect PIN"],
       [code |-> "CKR_PIN_LOCKED", status |-> 401, error |-> "PIN is locked"],
       [code |-> "CKR_TOKEN_NOT_PRESENT", status |-> 500,
        error |-> "Smart card not detected"],
       [code |-> "CKR_SLOT_ID_INVALID", status |-> 500, error |-> "Invalid slot"],
       [code |-> "CKR_USER_NOT_LOGGED_IN", status |-> 500,
        error |-> "Session expired"] >>

\* the positions of ClaimedOrder whose name occurs in the text
Matches(text) == {i \in 1..Len(ClaimedOrder) : ClaimedOrder[i].code \in text}

FirstMatch(text) == CHOOSE i \in Matches(text) : \A j \in Matches(text) : i <= j

\* the slot list the driver gave the certificate handler, if it got that far
GotSlotList == CallsOf("getSlotList", calls) # <<>> /\ CallsOf("getSlotList", calls)[1].ok

\* C3: POST /api/certificate answers a PKCS#11 error by the first name of
\* ClaimedOrder that occurs in its text (401 for the two PIN names, 500 for
\* the others and for a text with none of them) and a requested slot that is
\* not among the present slots with 400; each such body is a JSON object
\* with an 'error' and no 'certificates'.
CertificateErrorClassified ==
    resp.handler = "certificate" =>
        /\ (raised # None /\ Get(raised).cls = "PyKCS11Error") =>
              /\ resp.json /\ resp.error # None /\ resp.certificates = None
              /\ IF Matches(Get(raised).text) = {}
                 THEN resp.status = 500 /\ resp.error = Some("Smart card error")
                 ELSE LET m == ClaimedOrder[FirstMatch(Get(raised).text)]
                      IN  resp.status = m.status /\ resp.error = Some(m.error)
        /\ (raised = None /\ GotSlotList
            /\ ~InSeq(slot_int(Get(req.data).slot), CallsOf("getSlotList", calls)[1].ret))
           => /\ resp.json /\ resp.error # None /\ resp.certificates = None
              /\ resp.status = 400

\* C3 witness: a text with two of the names, answered by the earlier one
CertificateErrorClassifiedWitness ==
    /\ resp.handler = "certificate"
    /\ raised # None
    /\ Get(raised).cls = "PyKCS11Error"
    /\ Get(raised).text = {"CKR_PIN_LOCKED", "CKR_TOKEN_NOT_PRESENT"}
    /\ resp.status = 401

----------------------------------------------------------------------------

\* C4: an exception raised while handling POST /api/certificate or POST
\* /api/sign that is not a PKCS#11 error, a failed conversion of a request
\* field included, is answered by the handler with a JSON error body that
\* holds the exception's type name; none escapes the handler.
UnclassifiedExceptionAnswered ==
    (resp.handler \in {"certificate", "sign"} /\ raised # None
     /\ Get(raised).cls \notin {"PyKCS11Error", "PKCS11Error"})
    => /\ ~resp.escaped
       /\ resp.json
       /\ resp.error # None
       /\ resp.type_name = Some(Get(raised).cls)

----------------------------------------------------------------------------

\* the pkcs11_path of the request being answered
RequestPath ==
    IF req.handler = "slots" THEN req.pkcs11_path
    ELSE IF req.handler = "certificate"
    THEN (IF req.data = None THEN None ELSE Get(req.data).pkcs11_path)
    ELSE req.form.pkcs11_path

\* c has a character that is not whitespace
NonBlank(c) == c # None /\ \E k \in 1..Len(Get(c)) : Get(c)[k] \notin Whitespace

\* p is t without its leading and trailing whitespace
TrimOf(p, t) ==
    /\ p # <<>>
    /\ p[1] \notin Whitespace
    /\ p[Len(p)] \notin Whitespace
    /\ \E i \in 0..Len(t) :
          /\ i + Len(p) <= Len(t)
          /\ SubSeq(t, i + 1, i + Len(p)) = p
          /\ \A k \in (1..i) \cup ((i + Len(p) + 1)..Len(t)) : t[k] \in Whitespace

\* the calls that take the driver's path
PathOps == {"exists", "load", "lib"}

\* C5: the driver path a handler uses is the request's pkcs11_path, trimmed,
\* when that is present and not blank; otherwise PKCS11_LIB when it is set;
\* otherwise the built-in default.  For /api/slots, /api/certificate and
\* /api/sign alike.
DriverPathPrecedence ==
    resp.handler \in {"slots", "certificate", "sign"} =>
        \A i \in 1..Len(calls) :
            calls[i].op \in PathOps =>
                IF NonBlank(RequestPath)
                THEN TrimOf(calls[i].arg, Get(RequestPath))
                ELSE IF environ # None
                THEN calls[i].arg = Get(environ)
                ELSE calls[i].arg = DEFAULT_PKCS11_LIB

\* C5 witness: PKCS11_LIB is set and /api/sign loads the request's path, trimmed
DriverPathPrecedenceWitness ==
    /\ resp.handler = "sign"
    /\ environ # None
    /\ RequestPath = Some(<<" ", "a">>)
    /\ calls # <<>>
    /\ calls[1].op = "lib"
    /\ calls[1].arg = <<"a">>

----------------------------------------------------------------------------

\* the geometry fields the caller's box comes from: the first signature box
\* when there is one, else the form
CallerGeom ==
    IF req.form.signature_boxes.kind = "list" /\ req.form.signature_boxes.boxes # <<>>
    THEN req.form.signature_boxes.boxes[1].geom
    ELSE req.form.geom

\* a field's number, or the handler's default for it
CallerValue(field, default) ==
    IF CallerGeom[field].kind = "num" THEN CallerGeom[field].val ELSE default

\* MediaBox[3] - MediaBox[1] of the page the handler looked up ([0, 0, 612, 792]
\* when the page has no MediaBox)
LookedUpHeight ==
    LET page_obj == CallsOf("Kids", calls)[1].ret
    IN  IF page_obj = None THEN 792 ELSE Get(page_obj)[4] - Get(page_obj)[2]

\* C6: the signature field of a visible signature, for the caller's box
\* (x, y, width, height) from the top-left corner of a page of height H, has
\* the rectangle (x, H - y - height, x + width, H - y) and is put on the
\* 0-based page (page - 1).
SignatureFieldBox ==
    resp.handler = "sign" =>
        \A i \in 1..Len(calls) :
            calls[i].op = "append_signature_field" =>
                LET x == CallerValue("x", 50)
                    y == CallerValue("y", 50)
                    width == CallerValue("width", 200)
                    height == CallerValue("height", 70)
                    H == LookedUpHeight
                    box == calls[i].arg.box
                IN  /\ box = <<x, H - y - height, x + width, H - y>>
                    /\ box[3] - box[1] = width
                    /\ box[4] - box[2] = height
                    /\ calls[i].arg.on_page = CallerValue("page", 1) - 1

\* C6 witness: a signed PDF whose field was placed from a box that gives y and
\* height, on a page whose MediaBox does not start at 0
SignatureFieldBoxWitness ==
    /\ resp.handler = "sign"
    /\ resp.status = 200
    /\ CallerGeom.y = Num(20)
    /\ CallerGeom.height = Num(5)
    /\ CallerGeom.page = Num(2)
    /\ \E i \in 1..Len(calls) :
          /\ calls[i].op = "append_signature_field"
          /\ calls[i].ok
          /\ calls[i].arg.on_page = 1
          /\ calls[i].arg.box[2] = 175
          /\ calls[i].arg.box[4] = 180

----------------------------------------------------------------------------

\* the k-th name of the sequence name.ext, name_1.ext, name_2.ext, ...
Candidate(name, k) ==
    IF k = 0 THEN name ELSE numbered(splitext(name).base, k, splitext(name).ext)

\* the name the save-files request in r asks for: the file's own, or the archive's
AskedName(r) ==
    IF Len(Get(r.data).files) = 1 THEN Get(r.data).files[1].name ELSE ZipName

\* C7: a save-files request never overwrites or removes a file that exists,
\* and the path it writes is the first of name.ext, name_1.ext, name_2.ext, ...
\* that does not exist, found after at most as many steps as there are files.
SaveNeverOverwrites ==
    [][ /\ \A p \in DOMAIN downloads :
              p \in DOMAIN downloads' /\ downloads'[p] = downloads[p]
        /\ \A p \in DOMAIN downloads' \ DOMAIN downloads :
              \E k \in 0..Cardinality(DOMAIN downloads) :
                  /\ p = Candidate(AskedName(req'), k)
                  /\ \A j \in 0..(k - 1) :
                        Candidate(AskedName(req'), j) \in DOMAIN downloads
      ]_vars

\* C7 witness: a.pdf was there, a second a.pdf with other bytes went to a_1.pdf
SaveNeverOverwritesWitness ==
    /\ resp.handler = "save-files"
    /\ resp.status = 200
    /\ AskedName(req) = <<"a", ".pdf">>
    /\ resp.saved_files = Some(<< <<"a", "_1", ".pdf">> >>)
    /\ downloads[<<"a", ".pdf">>] = File(1)
    /\ downloads[<<"a", "_1", ".pdf">>] = File(2)

----------------------------------------------------------------------------

\* the paths the save-files handler created as archives and as plain files
ArchivesWritten == SelectSeq(calls, LAMBDA c : c.op = "ZipFile" /\ c.ok)
FilesWritten == SelectSeq(calls, LAMBDA c : c.op = "open" /\ c.ok)

\* C8: a save-files request that succeeds wrote an archive if and only if it
\* carried more than one file: one file is written as itself and no archive,
\* two or more give exactly one archive with one entry per file; saved_files
\* lists exactly the one path written.
ArchiveIffSeveralFiles ==
    (resp.handler = "save-files" /\ resp.status = 200) =>
        LET n == Len(Get(req.data).files) IN
        /\ ArchivesWritten # <<>> <=> n > 1
        /\ n = 1 => /\ Len(FilesWritten) = 1
                    /\ resp.saved_files = Some(<<FilesWritten[1].arg>>)
        /\ n > 1 => /\ Len(ArchivesWritten) = 1
                    /\ FilesWritten = <<>>
                    /\ Len(downloads[ArchivesWritten[1].arg].entries) = n
                    /\ resp.saved_files = Some(<<ArchivesWritten[1].arg>>)

----------------------------------------------------------------------------

\* the driver's slot list as /api/slots got it
SlotsGot == CallsOf("getSlotList", calls)[1].ret

\* whether getTokenInfo raised for the i-th slot of the list
InfoRaised(i) == ~CallsOf("getTokenInfo", calls)[i].ok

\* /api/slots got a non-empty slot list from the driver
SlotsSucceeded ==
    /\ raised = None
    /\ CallsOf("getSlotList", calls) # <<>>
    /\ SlotsGot # <<>>

\* C9: GET /api/slots always answers a JSON object with a 'slots' list.  On
\* success the list has one entry per present slot, in the driver's order,
\* with that slot's id; a slot whose token info cannot be read has the label
\* 'Slot <id>' and model and manufacturer 'Unknown'.  Otherwise (no library,
\* no driver file, no token, a driver failure) the list is empty and 'error'
\* is set.
SlotsAlwaysAnswered ==
    resp.handler = "slots" =>
        /\ ~resp.escaped
        /\ resp.json
        /\ IF SlotsSucceeded
           THEN /\ resp.error = None
                /\ Len(resp.slots) = Len(SlotsGot)
                /\ \A i \in 1..Len(SlotsGot) :
                      /\ resp.slots[i].id = SlotsGot[i]
                      /\ InfoRaised(i) =>
                            /\ resp.slots[i].label = <<"Slot ", ToString(SlotsGot[i])>>
                            /\ resp.slots[i].model = <<"Unknown">>
                            /\ resp.slots[i].manufacturer = <<"Unknown">>
           ELSE resp.slots = <<>> /\ resp.error # None

\* C9 witness: two slots, the driver's order kept, the first one unreadable
SlotsAlwaysAnsweredWitness ==
    /\ resp.handler = "slots"
    /\ SlotsSucceeded
    /\ SlotsGot = <<2, 0>>
    /\ InfoRaised(1)
    /\ ~InfoRaised(2)
    /\ Len(resp.slots) = 2
    /\ resp.slots[1].model = <<"Unknown">>
    /\ resp.slots[2].id = 0

----------------------------------------------------------------------------

\* C10: two concurrent save-files requests that name the same file write to
\* distinct paths, whatever the interleaving.
ConcurrentSavesDistinct ==
    \A t \in DOMAIN threads, u \in DOMAIN threads :
        (t # u /\ threads[t].pc = "saved" /\ threads[u].pc = "saved"
         /\ threads[t].name = threads[u].name)
        => threads[t].file_path # threads[u].file_path

----------------------------------------------------------------------------

\* the 'pin' field of the request being answered
RequestPin ==
    IF req.handler = "certificate"
    THEN (IF req.data = None THEN None ELSE Get(req.data).pin)
    ELSE req.form.pin

\* the 'slot' field of the request being answered
RequestSlot ==
    IF req.handler = "certificate" THEN Get(req.data).slot ELSE req.form.slot

\* the pin is absent or has nothing but whitespace
PinBlank(p) == p = None \/ \A k \in 1..Len(Get(p)) : Get(p)[k] \in Whitespace

\* the calls that open a session on the card or present the PIN to it
CardOps == {"openSession", "login", "open"}

NoCardOp == \A i \in 1..Len(calls) : calls[i].op \notin CardOps

\* the slot lists the driver gave the handler being answered
SlotListsGot == CallsOf("getSlotList", calls) \o CallsOf("get_slots", calls)

\* a requested slot that is not among the present slots is answered with 400
\* and no session was opened nor login attempted
AbsentSlotRefusedBeforeOpen ==
    (resp.handler \in {"certificate", "sign"} /\ SlotListsGot # <<>>
     /\ SlotListsGot[1].ok /\ ~InSeq(slot_int(RequestSlot), SlotListsGot[1].ret))
    => ~resp.escaped /\ resp.status = 400 /\ NoCardOp

\* no request answered with 400 opened a session or presented a PIN
NoPinSpentOn400 ==
    (resp.handler \in {"certificate", "sign"} /\ resp.status = 400) => NoCardOp

\* the handler being answered can work at all and the request has its payload:
\* the library is importable and the JSON body, or the PDF, is there
Served ==
    IF req.handler = "certificate"
    THEN PKCS11_AVAILABLE /\ req.data # None
    ELSE PYHANKO_AVAILABLE /\ req.form.has_pdf

\* C11: in POST /api/certificate and POST /api/sign a missing or blank PIN is
\* answered with 400 'PIN required' before the PKCS#11 library is loaded; a
\* requested slot that is not among the present slots is answered with 400
\* before any session is opened or login attempted; no PIN attempt is spent on
\* a request answered with 400.
PinCheckedBeforeCard ==
    /\ (resp.handler \in {"certificate", "sign"} /\ Served /\ PinBlank(RequestPin))
       => /\ ~resp.escaped
          /\ resp.status = 400
          /\ resp.error = Some("PIN required")
          /\ calls = <<>>
    /\ AbsentSlotRefusedBeforeOpen
    /\ NoPinSpentOn400

\* the slot and the geometry fields of the request being answered convert
FieldsConvert ==
    IF req.handler = "certificate"
    THEN Get(req.data).slot.kind # "bad"
    ELSE req.form.slot.kind # "bad" /\ sign_geometry(req.form) # None

\* what does hold of the PIN check: a request with a missing or blank PIN makes
\* no call to the PKCS#11 library, whatever else is wrong with it, and is
\* answered 'PIN required' when its numeric fields convert
BlankPinMakesNoCall ==
    (resp.handler \in {"certificate", "sign"} /\ PinBlank(RequestPin))
    => /\ calls = <<>>
       /\ (Served /\ FieldsConvert) =>
             /\ ~resp.escaped
             /\ resp.status = 400
             /\ resp.error = Some("PIN required")

----------------------------------------------------------------------------

\* signature_boxes of the request being answered parsed to a non-empty list
BoxesGiven ==
    req.form.signature_boxes.kind = "list" /\ req.form.signature_boxes.boxes # <<>>

\* the 'visible' form field equals 'true', which is also its default
VisibleField == req.form.visible \in {None, Some("true")}

\* api_sign_pdf read the PDF, so it went on to the signature field
ReachedField ==
    CallsOf("PdfFileReader", calls) # <<>> /\ CallsOf("PdfFileReader", calls)[1].ok

\* C12: POST /api/sign takes the signature geometry from one place.  When
\* signature_boxes parses to a non-empty list the first box supplies page, x,
\* y, width and height (1, 50, 50, 200, 70 for a key it lacks), the signature
\* is visible whatever the 'visible' field says, and the other boxes and the
\* form's geometry fields are ignored.  Otherwise the form fields supply them
\* with the same defaults and the field is added only if 'visible' is 'true'
\* or absent.
GeometryFromOnePlace ==
    (resp.handler = "sign" /\ ReachedField) =>
        LET from == IF BoxesGiven THEN req.form.signature_boxes.boxes[1].geom
                    ELSE req.form.geom
            value(field, default) ==
                IF from[field].kind = "num" THEN from[field].val ELSE default
            shown == BoxesGiven \/ VisibleField
            looked == CallsOf("Kids", calls)
            added == CallsOf("append_signature_field", calls)
        IN  /\ looked # <<>> <=> shown
            /\ ~shown => added = <<>>
            /\ \A i \in 1..Len(looked) : looked[i].arg = value("page", 1) - 1
            /\ \A i \in 1..Len(added) :
                  LET box == added[i].arg.box IN
                  /\ added[i].arg.on_page = value("page", 1) - 1
                  /\ box[1] = value("x", 50)
                  /\ LookedUpHeight - box[4] = value("y", 50)
                  /\ box[3] - box[1] = value("width", 200)
                  /\ box[4] - box[2] = value("height", 70)

\* C12 witness: two boxes and 'visible' = 'false'; the field was added from
\* the first box, with the defaults for the keys it lacks
GeometryFromOnePlaceWitness ==
    /\ resp.handler = "sign"
    /\ resp.status = 200
    /\ BoxesGiven
    /\ Len(req.form.signature_boxes.boxes) = 2
    /\ req.form.visible = Some("false")
    /\ req.form.signature_boxes.boxes[1].geom =
          [page |-> Missing, x |-> Num(10), y |-> Missing, width |-> Missing,
           height |-> Num(5)]
    /\ req.form.geom = OtherGeom
    /\ \E i \in 1..Len(calls) :
          /\ calls[i].op = "append_signature_field"
          /\ calls[i].ok
          /\ calls[i].arg.on_page = 0
          /\ calls[i].arg.box[1] = 10
          /\ calls[i].arg.box[3] = 210
          /\ calls[i].arg.box[4] - calls[i].arg.box[2] = 5

----------------------------------------------------------------------------

\* start_app has returned or has been left by an exception
StartAppEnded == pc \in {"done", "raised"}

\* the window is at the server's URL only after a connect() to that port
\* succeeded, and the port is the one find_free_port returned
NavigatedAfterConnect ==
    window.kind = "url" => window.port = Get(port) /\ window.port \in connected

\* the failure page is shown only when no connect() succeeded before the
\* timeout had passed
FailedPageAfterTimeout ==
    window = FailedPage => connected = {} /\ elapsed >= TimeoutSleeps

\* the port the server thread binds is the one find_free_port returned
ServerBindsFoundPort ==
    /\ server.state # "none" => server.port = Get(port)
    /\ \A p \in Ports : listening[p] = "server" =>
          server.state = "listening" /\ p = Get(port)

\* C13: on desktop start-up the window is navigated to http://127.0.0.1:<port>
\* only after a TCP connection to that port succeeded; it shows the 'Server
\* failed to start' page only when none succeeded within the timeout; once
\* start_app has ended the window shows one of the two; and the port the
\* server binds is the one find_free_port returned.
StartUpShowsOnePage ==
    /\ NavigatedAfterConnect
    /\ FailedPageAfterTimeout
    /\ ServerBindsFoundPort
    /\ StartAppEnded => window.kind \in {"url", "failed"}

====
